---- MODULE Spec2Model ----
(***************************************************************************)
(* Model of src/main.py: the ApiWorker pipeline (identity -> match-id      *)
(* listing -> per-match details with filtering and early stop) and the     *)
(* TeamAnalyzerApp handlers that start a worker and consume its signals.   *)
(*                                                                         *)
(* The worker thread and the GUI thread interleave; a signal emitted by    *)
(* the worker is queued for the GUI thread (Qt queued connection) and is   *)
(* handled there in emission order.  A worker step runs from the return of *)
(* one blocking requests.get to the issue of the next one.                 *)
(***************************************************************************)
EXTENDS Integers, Sequences, FiniteSets, TLC

\* ------------------------------------------------------------------------
\* Bounds
\* ------------------------------------------------------------------------
MaxCount == 2       \* largest match_count offered (the program offers 5..20)
MaxIds == 4         \* longest list the listing endpoint returns
MaxWorkers == 2     \* worker-thread slots (a second one is only ever used
                    \* if start_analysis runs while a worker is in flight)

Workers == 1..MaxWorkers
MatchCounts == 1..MaxCount

Min(a, b) == IF a < b THEN a ELSE b
Max(a, b) == IF a > b THEN a ELSE b

\* ------------------------------------------------------------------------
\* Constants of the program
\* ------------------------------------------------------------------------
POSITIONS == <<"TOP", "JUNGLE", "MIDDLE", "BOTTOM", "UTILITY">>

\* QUEUE_TYPES.get(queue_id, "Summoner's Rift")
QUEUE_TYPES(queue_id) ==
    CASE queue_id = 400 -> "Normal Draft"
      [] queue_id = 420 -> "Ranked Solo/Duo"
      [] queue_id = 430 -> "Normal Blind"
      [] queue_id = 440 -> "Ranked Flex"
      [] queue_id = 700 -> "Clash"
      [] OTHER -> "Summoner's Rift"

SUMMONERS_RIFT == 11

EXCLUDED_QUEUES == {450, 1090, 1100, 1110, 1130, 1150, 1200}

\* Python's None, for values that are otherwise records
None == [none |-> TRUE]
\* Python's None / empty string where a puuid string is expected
NoPuuid == ""

\* The messages run can send with the error signal; the last is followed
\* by str(e)
MSG_PUUID == "Could not retrieve player PUUID. Check your Riot ID and API key."
MSG_NO_MATCHES == "No matches found for this player."
MSG_NO_VALID == "No valid Summoner's Rift matches found for this player."
MSG_EXCEPTION == "An error occurred: "

\* ------------------------------------------------------------------------
\* Upstream responses (the environment)
\* ------------------------------------------------------------------------
ME == "me"          \* the puuid the identity endpoint knows the player by

Participant(puuid, teamId, teamPosition, kills, deaths, assists, win) ==
    [puuid |-> puuid, teamId |-> teamId, teamPosition |-> teamPosition,
     kills |-> kills, deaths |-> deaths, assists |-> assists, win |-> win,
     summonerName |-> puuid]

\* player on the blue side; two enemies share the TOP role
PartsBlue ==
    << Participant(ME, 100, "TOP", 4, 0, 6, TRUE),
       Participant("a1", 100, "JUNGLE", 2, 2, 2, TRUE),
       Participant("e1", 200, "TOP", 1, 3, 1, FALSE),
       Participant("e2", 200, "TOP", 0, 4, 2, FALSE) >>

\* player on the red side, listed first and interleaved with the blue side
PartsRed ==
    << Participant(ME, 200, "MIDDLE", 1, 5, 1, FALSE),
       Participant("e1", 100, "MIDDLE", 6, 1, 2, TRUE),
       Participant("a1", 200, "", 3, 0, 0, FALSE),
       Participant("e2", 100, "UTILITY", 0, 0, 9, TRUE) >>

\* the analyzed player is not among the participants
PartsNoPlayer ==
    << Participant("a1", 100, "TOP", 1, 1, 1, TRUE),
       Participant("e1", 200, "TOP", 1, 1, 1, FALSE) >>

\* a participant without the "teamId" key: p["teamId"] raises KeyError
PartsBad ==
    << Participant(ME, 100, "TOP", 1, 1, 1, TRUE),
       [puuid |-> "x1", teamPosition |-> "TOP", kills |-> 0, deaths |-> 0,
        assists |-> 0, win |-> FALSE, summonerName |-> "x1"] >>

Payload(mapId, queueId, participants) ==
    [mapId |-> mapId, queueId |-> queueId, gameDuration |-> 1800,
     gameVersion |-> "14.1", participants |-> participants]

Http(status_code, json) ==
    [kind |-> "http", status_code |-> status_code, json |-> json]
\* requests.get raising (timeout, connection error); message is str(e)
RaisedByRequests == [kind |-> "exception", message |-> "Connection aborted."]

\* what the match-detail endpoint may answer in a run
DetailResponses ==
    { RaisedByRequests,
      Http(404, None),
      Http(200, Payload(11, 420, PartsBlue)),
      Http(200, Payload(11, 420, PartsNoPlayer)),
      Http(200, Payload(11, 450, PartsBad)),
      Http(200, Payload(11, 420, PartsBad)) }

\* what the identity endpoint may answer
IdentityResponses ==
    { RaisedByRequests, Http(404, None), Http(200, [puuid |-> ME]) }

\* what the listing endpoint may answer to ?count=count: at most count ids,
\* most recent first; match ids are 1, 2, ... in listing order
ListingResponses(count) ==
    { RaisedByRequests, Http(403, None) } \cup
    { Http(200, [i \in 1..n |-> i]) : n \in 0..Min(count, MaxIds) }

\* ------------------------------------------------------------------------
\* State
\* ------------------------------------------------------------------------
VARIABLES
    analyze_button,   \* TeamAnalyzerApp.analyze_button.isEnabled()
    progress_bar,     \* [value, visible] of TeamAnalyzerApp.progress_bar
    status,           \* the status bar message
    match_layout,     \* the widgets in TeamAnalyzerApp.match_layout
    modal,            \* stack of open QMessageBox dialogs (innermost last)
    slot_raised,      \* a slot of the GUI thread ended in an exception
    workers,          \* the ApiWorker thread in each slot
    requests,         \* per worker: the upstream requests issued so far
    received,         \* per worker: the upstream responses received so far
    emitted,          \* per worker: the signals emitted so far
    upstream,         \* per worker: match id -> what the detail endpoint
                      \* answers for it (fixed when the ids are listed)
    queue,            \* signals queued for the GUI thread, oldest first
    probe             \* input and output of one operation run in isolation

vars == <<analyze_button, progress_bar, status, match_layout, modal,
          slot_raised, workers, requests, received, emitted, upstream, queue,
          probe>>

gui == <<analyze_button, progress_bar, status, match_layout, modal, slot_raised>>

\* no thread in the slot
NoWorker ==
    [pc |-> "none", match_count |-> 0, puuid |-> NoPuuid, match_ids |-> <<>>,
     idx |-> 0, results |-> <<>>]

ProbeOff == [phase |-> "off"]

InitProgram ==
    /\ analyze_button = TRUE
    /\ progress_bar = [value |-> 0, visible |-> FALSE]
    /\ status = "Ready"
    /\ match_layout = <<>>
    /\ modal = <<>>
    /\ slot_raised = FALSE
    /\ workers = [w \in Workers |-> NoWorker]
    /\ requests = [w \in Workers |-> <<>>]
    /\ received = [w \in Workers |-> <<>>]
    /\ emitted = [w \in Workers |-> <<>>]
    /\ upstream = [w \in Workers |-> <<>>]
    /\ queue = <<>>

Init == InitProgram /\ probe = ProbeOff

\* ------------------------------------------------------------------------
\* ApiWorker: the three upstream calls
\* ------------------------------------------------------------------------
\* the outcome of a call that ended in an exception
Raised == [raised |-> TRUE]

\* get_puuid: the puuid on status 200, None otherwise
get_puuid(response) ==
    IF response.status_code = 200 THEN response.json.puuid ELSE NoPuuid

\* get_match_ids: the listed ids on status 200, [] otherwise
get_match_ids(response) ==
    IF response.status_code = 200 THEN response.json ELSE <<>>

\* p.get("teamPosition")
TeamPositionOf(p) ==
    IF "teamPosition" \in DOMAIN p THEN p.teamPosition ELSE ""

\* variant that takes the last match
LastOrNone(s) == IF s = <<>> THEN None ELSE s[Len(s)]
\* next((p for p in team if <test>), None)
FirstOrNone(s) == IF s = <<>> THEN None ELSE Head(s)

\* variant that splits by position: the first half of the participant list
\* for team 100, the second half for team 200
TeamByPosition(players, teamId) ==
    LET half == Len(players) \div 2
    IN IF teamId = 100 THEN SubSeq(players, 1, half)
       ELSE SubSeq(players, half + 1, Len(players))

\* [p for p in players if p["teamId"] == teamId]
TeamOf(players, teamId) ==
    LET OnTeam(p) == p.teamId = teamId
    IN SelectSeq(players, OnTeam)

\* 1 if any(p["puuid"] == puuid for p in team1) else 2
PlayerTeam(team1, puuid) ==
    IF \E i \in 1..Len(team1) : team1[i].puuid = puuid THEN 1 ELSE 2

\* {position: first participant of the team with that teamPosition, or None}
ByPosition(team) ==
    [position \in {POSITIONS[i] : i \in 1..Len(POSITIONS)} |->
        LET HasPosition(p) == TeamPositionOf(p) = position
        IN FirstOrNone(SelectSeq(team, HasPosition))]

\* map_id != 11
WrongMap(map_id) == map_id # SUMMONERS_RIFT

\* variant whose list lacks the last queue id
ExcludedQueueShort(queue_id) == queue_id \in EXCLUDED_QUEUES \ {1200}
\* queue_id in [450, 1090, 1100, 1110, 1130, 1150, 1200]
ExcludedQueue(queue_id) == queue_id \in EXCLUDED_QUEUES

\* get_match_details: None, a summary, or Raised
get_match_details(puuid, match_id, response) ==
    IF response.kind = "exception" THEN Raised
    ELSE IF response.status_code # 200 THEN None
    ELSE
      LET data == response.json
          players == data.participants
      IN IF WrongMap(data.mapId) THEN None
         ELSE IF ExcludedQueue(data.queueId) THEN None
         ELSE IF \E i \in 1..Len(players) : "teamId" \notin DOMAIN players[i]
              THEN Raised     \* KeyError: 'teamId'
         ELSE
           LET team1 == TeamOf(players, 100)
               team2 == TeamOf(players, 200)
               player_team == PlayerTeam(team1, puuid)
               allied_team == IF player_team = 1 THEN team1 ELSE team2
               enemy_team == IF player_team = 1 THEN team2 ELSE team1
               IsPlayer(p) == p.puuid = puuid
               player == FirstOrNone(SelectSeq(players, IsPlayer))
           IN [match_id |-> match_id,
               duration |-> [num |-> data.gameDuration, den |-> 60],
               win |-> IF player # None THEN player.win ELSE FALSE,
               game_type |-> QUEUE_TYPES(data.queueId),
               queue_id |-> data.queueId,
               game_version |-> data.gameVersion,
               player |-> player,
               allied_team |-> allied_team,
               enemy_team |-> enemy_team,
               allied_by_position |-> ByPosition(allied_team),
               enemy_by_position |-> ByPosition(enemy_team)]

\* variant that reports no text
NoExceptionMessage(response) == ""
\* str(e) of the exception a call ends in: the one requests.get raised, or
\* the KeyError of p["teamId"]
ExceptionMessage(response) ==
    IF response.kind = "exception" THEN response.message ELSE "'teamId'"

\* ------------------------------------------------------------------------
\* ApiWorker.run: the pieces between the calls
\* ------------------------------------------------------------------------
Progress(value) == [name |-> "progress", value |-> value]
Error(message) == [name |-> "error", message |-> message]
Finished(results) == [name |-> "finished", results |-> results]

ReqPuuid == [op |-> "get_puuid"]
ReqMatchIds(count) == [op |-> "get_match_ids", count |-> count]
ReqMatchDetails(match_id) == [op |-> "get_match_details", match_id |-> match_id]

\* request_count = self.match_count * 2
request_count(match_count) == match_count * 2

\* variants of the three emptiness tests below that never see a missing value
AlwaysHasPuuid(puuid) == FALSE
AlwaysHasMatchIds(match_ids) == FALSE
AlwaysHasResults(results) == FALSE

\* "if not puuid"
NotPuuid(puuid) == puuid = NoPuuid

\* "if not match_ids"
NoMatchIds(match_ids) == match_ids = <<>>

\* "if match_data"
IsMatchData(match_data) == match_data # None

\* "if not results"
NoResults(results) == results = <<>>

\* variant that scales the loop's share to 100 instead of 70
LoopProgressPercent(idx, n) == 30 + ((idx + 1) * 100) \div n

\* variant that counts the ids already fetched
LoopProgressFetched(idx, n) == 30 + (idx * 70) \div n

\* 30 + int((idx + 1) / len(match_ids) * 70), idx counted from 0.  The
\* quotient is a double; for every 1 <= idx + 1 <= n <= 69 the truncated
\* product equals the integer quotient below (the two first differ at
\* idx + 1 = 47, n = 70, far above the 40 ids the program ever requests).
LoopProgress(idx, n) == 30 + ((idx + 1) * 70) \div n

\* variant with > for >=
OverCount(results, match_count) == Len(results) > match_count
\* len(results) >= self.match_count
ReachedCount(results, match_count) == Len(results) >= match_count

\* variant of the loop body below that puts the new summary first
LoopBodyPrepend(results, match_count, match_data) ==
    IF IsMatchData(match_data)
    THEN [results |-> <<match_data>> \o results,
          stop |-> ReachedCount(<<match_data>> \o results, match_count)]
    ELSE [results |-> results, stop |-> FALSE]

\* one iteration of the fetch loop after get_match_details returned
\* match_data: the new results, and whether the loop breaks
LoopBody(results, match_count, match_data) ==
    IF IsMatchData(match_data)
    THEN [results |-> Append(results, match_data),
          stop |-> ReachedCount(Append(results, match_data), match_count)]
    ELSE [results |-> results, stop |-> FALSE]

\* ------------------------------------------------------------------------
\* ApiWorker.run as steps of the worker thread
\* ------------------------------------------------------------------------
\* self.<signal>.emit(...), in order: recorded, and queued for the GUI thread
Emit(w, signals) ==
    /\ emitted' = [emitted EXCEPT ![w] = @ \o signals]
    /\ queue' = queue \o [i \in 1..Len(signals) |->
                             [worker |-> w, signal |-> signals[i]]]

\* variant that sends every request twice
IssueTwice(w, request) ==
    requests' = [requests EXCEPT ![w] = Append(Append(@, request), request)]
Issue(w, request) == requests' = [requests EXCEPT ![w] = Append(@, request)]

\* requests.get returns or raises; a match payload is recorded by its status
Receive(w, response) ==
    received' = [received EXCEPT ![w] = Append(@,
        IF response.kind = "http" /\ requests[w][Len(requests[w])].op = "get_match_details"
        THEN [kind |-> "http", status_code |-> response.status_code]
        ELSE response)]

\* variant that emits the last signal twice
EndRunTwice(w, signal) ==
    /\ workers' = [workers EXCEPT ![w].pc = "done"]
    /\ Emit(w, <<signal, signal>>)
    /\ UNCHANGED <<requests, upstream>>
\* run ends after emitting its last signal
EndRun(w, signal) ==
    /\ workers' = [workers EXCEPT ![w].pc = "done"]
    /\ Emit(w, <<signal>>)
    /\ UNCHANGED <<requests, upstream>>

\* progress 5, then the identity request is issued
run_begin(w) ==
    /\ workers[w].pc = "start"
    /\ workers' = [workers EXCEPT ![w].pc = "get_puuid"]
    /\ Emit(w, <<Progress(5)>>)
    /\ Issue(w, ReqPuuid)
    /\ UNCHANGED <<gui, received, upstream, probe>>

\* the identity request returns; progress 10 and the listing request
run_after_get_puuid(w) ==
    /\ workers[w].pc = "get_puuid"
    /\ \E response \in IdentityResponses :
         /\ Receive(w, response)
         /\ IF response.kind = "exception"
            THEN EndRun(w, Error(MSG_EXCEPTION \o ExceptionMessage(response)))
            ELSE LET puuid == get_puuid(response)
                 IN IF NotPuuid(puuid)
                    THEN EndRun(w, Error(MSG_PUUID))
                    ELSE /\ workers' = [workers EXCEPT ![w].pc = "get_match_ids",
                                                       ![w].puuid = puuid]
                         /\ Emit(w, <<Progress(10)>>)
                         /\ Issue(w, ReqMatchIds(request_count(workers[w].match_count)))
                         /\ UNCHANGED upstream
    /\ UNCHANGED <<gui, probe>>

\* the matches behind a listing: what the detail endpoint holds for each id
MatchesBehind(response) ==
    IF response.kind = "http" /\ response.status_code = 200
    THEN [1..Len(response.json) -> DetailResponses]
    ELSE {<<>>}

\* the listing request returns; progress 30, then the first loop iteration
\* up to its get_match_details request
run_after_get_match_ids(w) ==
    /\ workers[w].pc = "get_match_ids"
    /\ \E response \in ListingResponses(request_count(workers[w].match_count)) :
       \E matches \in MatchesBehind(response) :
         /\ Receive(w, response)
         /\ IF response.kind = "exception"
            THEN EndRun(w, Error(MSG_EXCEPTION \o ExceptionMessage(response)))
            ELSE LET match_ids == get_match_ids(response)
                 IN IF NoMatchIds(match_ids)
                    THEN EndRun(w, Error(MSG_NO_MATCHES))
                    ELSE IF Len(match_ids) = 0      \* the loop body never runs
                    THEN /\ workers' = [workers EXCEPT ![w].pc = "done",
                                                       ![w].match_ids = match_ids]
                         /\ Emit(w, <<Progress(30),
                                      IF NoResults(<<>>) THEN Error(MSG_NO_VALID)
                                      ELSE Finished(<<>>)>>)
                         /\ UNCHANGED <<requests, upstream>>
                    ELSE /\ workers' = [workers EXCEPT ![w].pc = "get_match_details",
                                                       ![w].match_ids = match_ids,
                                                       ![w].idx = 0,
                                                       ![w].results = <<>>]
                         /\ upstream' = [upstream EXCEPT ![w] = matches]
                         /\ Emit(w, <<Progress(30),
                                      Progress(LoopProgress(0, Len(match_ids)))>>)
                         /\ Issue(w, ReqMatchDetails(match_ids[1]))
    /\ UNCHANGED <<gui, probe>>

\* a get_match_details request returns; the rest of the iteration, then
\* either the next iteration up to its request or the end of run
run_after_get_match_details(w) ==
    /\ workers[w].pc = "get_match_details"
    /\ LET me == workers[w]
           match_id == me.match_ids[me.idx + 1]
           match_data == get_match_details(me.puuid, match_id, upstream[w][match_id])
       IN
       /\ Receive(w, upstream[w][match_id])
       /\ IF match_data = Raised
          THEN EndRun(w, Error(MSG_EXCEPTION \o ExceptionMessage(upstream[w][match_id])))
          ELSE
            LET body == LoopBody(me.results, me.match_count, match_data)
            IN IF ~body.stop /\ me.idx + 1 < Len(me.match_ids)
               THEN /\ workers' = [workers EXCEPT ![w].idx = me.idx + 1,
                                                  ![w].results = body.results]
                    /\ Emit(w, <<Progress(LoopProgress(me.idx + 1, Len(me.match_ids)))>>)
                    /\ Issue(w, ReqMatchDetails(me.match_ids[me.idx + 2]))
                    /\ UNCHANGED upstream
               ELSE /\ workers' = [workers EXCEPT ![w].pc = "done",
                                                  ![w].results = body.results]
                    /\ Emit(w, << IF NoResults(body.results)
                                  THEN Error(MSG_NO_VALID)
                                  ELSE Finished(body.results) >>)
                    /\ UNCHANGED <<requests, upstream>>
    /\ UNCHANGED <<gui, probe>>

\* ------------------------------------------------------------------------
\* Python floats
\* ------------------------------------------------------------------------
\* The quotients, sums and comparisons of create_summary_frame and of the
\* match cards are computed in binary64.  Significands have 53 binary digits,
\* more than an integer of the model holds, so a natural number is kept here
\* as its sequence of binary digits, least significant first, without
\* leading zeros (0 is <<>>).
RECURSIVE Bits(_)
Bits(n) == IF n = 0 THEN <<>> ELSE <<n % 2>> \o Bits(n \div 2)

RECURSIVE IntOf(_)
IntOf(a) == IF a = <<>> THEN 0 ELSE Head(a) + 2 * IntOf(Tail(a))

Digits == Seq({0, 1})

BitAt(a, i) == IF i <= Len(a) THEN a[i] ELSE 0

\* a without its leading zeros
Trim(a) ==
    LET ones == {i \in 1..Len(a) : a[i] = 1}
    IN IF ones = {} THEN <<>>
       ELSE SubSeq(a, 1, CHOOSE i \in ones : \A j \in ones : j <= i)

\* Digits lo..hi of a + b (sign = 1) or a - b (sign = -1), appended to the
\* digits in st; st.carry is the carry (borrow) into digit lo.  The range is
\* halved so that the depth of evaluation stays logarithmic.
AddState == [digits : Digits, carry : {0, 1}]
AddRange[a \in Digits, b \in Digits, sign \in {-1, 1}, st \in AddState, lo \in Nat, hi \in Nat] ==
    IF hi < lo THEN st
    ELSE IF hi = lo
    THEN LET s == BitAt(a, lo) + sign * (BitAt(b, lo) + st.carry)
         IN [digits |-> Append(st.digits, s % 2),
             carry |-> IF s < 0 \/ s > 1 THEN 1 ELSE 0]
    ELSE LET mid == (hi + lo) \div 2
         IN AddRange[a, b, sign, AddRange[a, b, sign, st, lo, mid], mid + 1, hi]

BigAdd(a, b) ==
    Trim(AddRange[a, b, 1, [digits |-> <<>>, carry |-> 0], 1,
                  1 + (IF Len(a) > Len(b) THEN Len(a) ELSE Len(b))].digits)

\* a - b for a >= b
BigSub(a, b) ==
    Trim(AddRange[a, b, -1, [digits |-> <<>>, carry |-> 0], 1, Len(a)].digits)

\* a >= b
BigGeq(a, b) ==
    \/ Len(a) > Len(b)
    \/ /\ Len(a) = Len(b)
       /\ LET differ == {i \in 1..Len(a) : a[i] # b[i]}
          IN differ = {} \/ a[CHOOSE i \in differ : \A j \in differ : j <= i] = 1

\* a * 2^k
ShiftLeft(a, k) == IF a = <<>> THEN <<>> ELSE [i \in 1..k |-> 0] \o a

\* One step of long division of a by b: digit i of a is brought down.
DivStep(a, b, st, i) ==
    LET r == IF st.rem = <<>> /\ a[i] = 0 THEN <<>> ELSE <<a[i]>> \o st.rem
    IN IF BigGeq(r, b)
       THEN [quot |-> <<1>> \o st.quot, rem |-> BigSub(r, b)]
       ELSE [quot |-> IF st.quot = <<>> THEN <<>> ELSE <<0>> \o st.quot, rem |-> r]

\* the steps for digits hi down to lo of a, from the state st
DivState == [quot : Digits, rem : Digits]
DivRange[a \in Digits, b \in Digits, st \in DivState, hi \in Nat, lo \in Nat] ==
    IF hi < lo THEN st
    ELSE IF hi = lo THEN DivStep(a, b, st, hi)
    ELSE LET mid == (hi + lo) \div 2
         IN DivRange[a, b, DivRange[a, b, st, hi, mid + 1], mid, lo]

\* quotient and remainder of a by b > 0
BigDivMod(a, b) ==
    LET skip == IF Len(b) - 1 < Len(a) THEN Len(b) - 1 ELSE Len(a)
    IN DivRange[a, b,
                [quot |-> <<>>, rem |-> SubSeq(a, Len(a) - skip + 1, Len(a))],
                Len(a) - skip, 1]

\* A Python float (IEEE 754 binary64, non-negative, normal range) is
\* [m, e] with value m * 2^e, m either 0 or a 53-digit significand.
ZeroFloat == [m |-> <<>>, e |-> 0]

\* the float nearest to p / q * 2^e, ties to the even significand
RoundToFloat(p, q, e) ==
    IF p = <<>> THEN ZeroFloat
    ELSE
      LET s == Len(q) + 54 - Len(p)
          num == IF s >= 0 THEN ShiftLeft(p, s) ELSE p
          den == IF s >= 0 THEN q ELSE ShiftLeft(q, 0 - s)
          d == BigDivMod(num, den)
          drop == Len(d.quot) - 53
          kept == SubSeq(d.quot, drop + 1, Len(d.quot))
          guard == d.quot[drop]
          sticky == d.rem # <<>> \/ \E i \in 1..(drop - 1) : d.quot[i] = 1
          up == guard = 1 /\ (sticky \/ kept[1] = 1)
          m == IF up THEN BigAdd(kept, <<1>>) ELSE kept
      IN IF Len(m) = 54
         THEN [m |-> SubSeq(m, 2, 54), e |-> e - s + drop + 1]
         ELSE [m |-> m, e |-> e - s + drop]

\* float(n)
FloatOfInt(n) == RoundToFloat(Bits(n), <<1>>, 0)

\* n / d for ints
IntTrueDiv(n, d) == RoundToFloat(Bits(n), Bits(d), 0)

\* x / y for floats
FloatDiv(x, y) == RoundToFloat(x.m, y.m, x.e - y.e)

\* x + y for floats
FloatAdd(x, y) ==
    LET e == IF x.e < y.e THEN x.e ELSE y.e
    IN IF x.m = <<>> THEN y
       ELSE IF y.m = <<>> THEN x
       ELSE RoundToFloat(BigAdd(ShiftLeft(x.m, x.e - e), ShiftLeft(y.m, y.e - e)), <<1>>, e)

\* x >= y for floats
FloatGeq(x, y) ==
    LET e == IF x.e < y.e THEN x.e ELSE y.e
    IN IF y.m = <<>> THEN TRUE
       ELSE IF x.m = <<>> THEN FALSE
       ELSE BigGeq(ShiftLeft(x.m, x.e - e), ShiftLeft(y.m, y.e - e))

\* f"{x:.1f}": the decimal with one fractional digit nearest to the exact
\* value of x, ties to the even digit; given as its number of tenths
Format1f(x) ==
    IF x.m = <<>> THEN 0
    ELSE
      LET ten == BigAdd(ShiftLeft(x.m, 3), ShiftLeft(x.m, 1))
          num == IF x.e >= 0 THEN ShiftLeft(ten, x.e) ELSE ten
          den == IF x.e >= 0 THEN <<1>> ELSE ShiftLeft(<<1>>, 0 - x.e)
          d == BigDivMod(num, den)
          twice == ShiftLeft(d.rem, 1)
          q == IntOf(d.quot)
      IN IF twice = den THEN q + (q % 2)
         ELSE IF BigGeq(twice, den) THEN q + 1
         ELSE q

\* ------------------------------------------------------------------------
\* MatchCardWidget
\* ------------------------------------------------------------------------
\* variant that divides by deaths + 1
KdaDeathsPlusOne(kills, deaths, assists) == IntTrueDiv(kills + assists, deaths + 1)
\* (kills + assists) / max(1, deaths)
Kda(kills, deaths, assists) == IntTrueDiv(kills + assists, Max(1, deaths))

\* player.get(key, 0)
GetOr0(player, key) == IF key \in DOMAIN player THEN player[key] ELSE 0

\* player.get("championName", "Unknown")
ChampionOf(player) ==
    IF "championName" \in DOMAIN player THEN player.championName ELSE "Unknown"

\* f"{champion}\n{kills}/{deaths}/{assists}\nKDA: {kda_ratio:.1f}", by its
\* parts; kda_ratio is the value the text is formatted from
format_ally_kda(player, is_user) ==
    LET kills == GetOr0(player, "kills")
        deaths == GetOr0(player, "deaths")
        assists == GetOr0(player, "assists")
        kda_ratio == Kda(kills, deaths, assists)
    IN [champion |-> ChampionOf(player), kills |-> kills, deaths |-> deaths,
        assists |-> assists, kda_ratio |-> kda_ratio, kda |-> Format1f(kda_ratio)]

format_enemy_kda(player) ==
    LET kills == GetOr0(player, "kills")
        deaths == GetOr0(player, "deaths")
        assists == GetOr0(player, "assists")
        kda_ratio == Kda(kills, deaths, assists)
    IN [champion |-> ChampionOf(player), kills |-> kills, deaths |-> deaths,
        assists |-> assists, kda_ratio |-> kda_ratio, kda |-> Format1f(kda_ratio)]

\* the ally label and the enemy label of one role ("" where the role mapping
\* has no participant)
create_position_frame(match_data, user_puuid, position) ==
    LET ally == match_data.allied_by_position[position]
        enemy == match_data.enemy_by_position[position]
    IN [ally |-> IF ally # None
                 THEN format_ally_kda(ally, ally.puuid = user_puuid) ELSE "",
        is_user |-> ally # None /\ ally.puuid = user_puuid,
        enemy |-> IF enemy # None THEN format_enemy_kda(enemy) ELSE ""]

\* one bar per participant of both raw teams, allies first; max() of an
\* empty sequence raises ValueError
create_damage_chart(match_data, user_puuid) ==
    LET all_players == match_data.allied_team \o match_data.enemy_team
        Damage(p) == GetOr0(p, "totalDamageDealtToChampions")
        max_damage == CHOOSE d \in {Damage(all_players[i]) : i \in 1..Len(all_players)} :
                         \A i \in 1..Len(all_players) : Damage(all_players[i]) <= d
    IN IF all_players = <<>> THEN Raised
       ELSE [i \in 1..Len(all_players) |->
               [champion |-> ChampionOf(all_players[i]),
                value |-> Damage(all_players[i]),
                maximum |-> max_damage,
                is_user |-> i <= Len(match_data.allied_team)
                            /\ all_players[i].puuid = user_puuid]]

\* MatchCardWidget(match_data, user_puuid): the header, the five role frames
\* and the damage chart
MatchCardWidget(match_data, user_puuid) ==
    LET damage == create_damage_chart(match_data, user_puuid)
    IN IF match_data.allied_team \o match_data.enemy_team = <<>> THEN Raised
       ELSE [match_id |-> match_data.match_id,
             game_type |-> match_data.game_type,
             game_result |-> IF match_data.win THEN "Victory" ELSE "Defeat",
             duration |-> Format1f(IntTrueDiv(match_data.duration.num,
                                              match_data.duration.den)),
             positions |-> [position \in {POSITIONS[i] : i \in 1..Len(POSITIONS)} |->
                              create_position_frame(match_data, user_puuid, position)],
             damage |-> damage]

\* ------------------------------------------------------------------------
\* TeamAnalyzerApp.create_summary_frame
\* ------------------------------------------------------------------------
\* sum(...) over ints
RECURSIVE SumInts(_)
SumInts(s) == IF s = <<>> THEN 0 ELSE SumInts(SubSeq(s, 1, Len(s) - 1)) + s[Len(s)]

\* sum(...) over floats: 0 + x1 + x2 + ..., left to right
RECURSIVE SumFloats(_)
SumFloats(s) ==
    IF s = <<>> THEN ZeroFloat
    ELSE FloatAdd(SumFloats(SubSeq(s, 1, Len(s) - 1)), s[Len(s)])

\* variant that keeps the analyzed player among the allies
AlliesWithPlayer(match) == match.allied_team
\* [p for p in match["allied_team"] if p["puuid"] != match["player"]["puuid"]]
Allies(match) ==
    LET Other(p) == p.puuid # match.player.puuid
    IN SelectSeq(match.allied_team, Other)

KdasOf(team) == [i \in 1..Len(team) |-> Kda(team[i].kills, team[i].deaths, team[i].assists)]

\* team_kdas and enemy_kdas after the loop over the matches
RECURSIVE team_kdas(_)
team_kdas(matches) ==
    IF matches = <<>> THEN <<>>
    ELSE team_kdas(SubSeq(matches, 1, Len(matches) - 1))
         \o KdasOf(Allies(matches[Len(matches)]))

RECURSIVE enemy_kdas(_)
enemy_kdas(matches) ==
    IF matches = <<>> THEN <<>>
    ELSE enemy_kdas(SubSeq(matches, 1, Len(matches) - 1))
         \o KdasOf(matches[Len(matches)].enemy_team)

\* sum(kdas) / len(kdas) if kdas else 0
AverageKda(kdas) ==
    IF kdas # <<>> THEN FloatDiv(SumFloats(kdas), FloatOfInt(Len(kdas))) ELSE ZeroFloat

\* variant that falls back to the allied average
TeamQualityOrAllied(avg_team_kda, avg_enemy_kda) ==
    IF avg_enemy_kda.m # <<>> THEN FloatDiv(avg_team_kda, avg_enemy_kda) ELSE avg_team_kda
\* avg_team_kda / avg_enemy_kda if avg_enemy_kda > 0 else 0
TeamQuality(avg_team_kda, avg_enemy_kda) ==
    IF avg_enemy_kda.m # <<>> THEN FloatDiv(avg_team_kda, avg_enemy_kda) ELSE ZeroFloat

\* the float literals 1.3, 1.1, 0.9, 0.7
AMAZING_FROM == RoundToFloat(Bits(13), Bits(10), 0)
GOOD_FROM == RoundToFloat(Bits(11), Bits(10), 0)
AVERAGE_FROM == RoundToFloat(Bits(9), Bits(10), 0)
BELOW_AVERAGE_FROM == RoundToFloat(Bits(7), Bits(10), 0)

\* variant with > for >=
QualityTypeExclusive(team_quality) ==
    IF ~FloatGeq(AMAZING_FROM, team_quality) THEN "amazing"
    ELSE IF ~FloatGeq(GOOD_FROM, team_quality) THEN "good"
    ELSE IF ~FloatGeq(AVERAGE_FROM, team_quality) THEN "average"
    ELSE IF ~FloatGeq(BELOW_AVERAGE_FROM, team_quality) THEN "below_average"
    ELSE "bad"
\* the if / elif chain on team_quality
QualityType(team_quality) ==
    IF FloatGeq(team_quality, AMAZING_FROM) THEN "amazing"
    ELSE IF FloatGeq(team_quality, GOOD_FROM) THEN "good"
    ELSE IF FloatGeq(team_quality, AVERAGE_FROM) THEN "average"
    ELSE IF FloatGeq(team_quality, BELOW_AVERAGE_FROM) THEN "below_average"
    ELSE "bad"

\* create_summary_frame: the values its labels show and the quality it opens
\* the popup with
create_summary_frame(matches) ==
    LET player_kills == SumInts([i \in 1..Len(matches) |-> matches[i].player.kills])
        player_deaths == SumInts([i \in 1..Len(matches) |-> matches[i].player.deaths])
        player_assists == SumInts([i \in 1..Len(matches) |-> matches[i].player.assists])
        allied == team_kdas(matches)
        enemy == enemy_kdas(matches)
        avg_team_kda == AverageKda(allied)
        avg_enemy_kda == AverageKda(enemy)
        team_quality == TeamQuality(avg_team_kda, avg_enemy_kda)
    IN [player_name |-> matches[1].player.summonerName,
        total_matches |-> Len(matches),
        wins |-> Cardinality({i \in 1..Len(matches) : matches[i].win}),
        player_kills |-> player_kills,
        player_deaths |-> player_deaths,
        player_assists |-> player_assists,
        player_kda |-> Kda(player_kills, player_deaths, player_assists),
        team_kdas |-> allied,
        enemy_kdas |-> enemy,
        avg_team_kda |-> avg_team_kda,
        avg_enemy_kda |-> avg_enemy_kda,
        team_quality |-> team_quality,
        quality_type |-> QualityType(team_quality)]

\* ------------------------------------------------------------------------
\* TeamAnalyzerApp: the GUI thread
\* ------------------------------------------------------------------------
\* the thread has ended and its last signal has been handled
Reap(w) ==
    /\ workers' = [workers EXCEPT ![w] = NoWorker]
    /\ requests' = [requests EXCEPT ![w] = <<>>]
    /\ received' = [received EXCEPT ![w] = <<>>]
    /\ emitted' = [emitted EXCEPT ![w] = <<>>]
    /\ upstream' = [upstream EXCEPT ![w] = <<>>]

FreeSlots == {w \in Workers : workers[w].pc = "none"}

\* variant in which start_analysis leaves the button as it is
LeftEnabled == TRUE
\* self.analyze_button.setEnabled(False) in start_analysis
DisabledWhileRunning == FALSE

\* The Analyze button is clicked (a disabled button, or a window behind a
\* message box, takes no click).  Either the warning box opens, or a worker
\* is created and started.
start_analysis ==
    /\ analyze_button
    /\ modal = <<>>
    /\ \E fields_filled \in BOOLEAN, match_count \in MatchCounts :
         IF ~fields_filled
         THEN /\ modal' = Append(modal, [box |-> "warning"])
              /\ UNCHANGED <<analyze_button, progress_bar, status, match_layout,
                             slot_raised, workers>>
         ELSE /\ FreeSlots # {}
              /\ match_layout' = <<>>                           \* clear_matches
              /\ analyze_button' = DisabledWhileRunning
              /\ progress_bar' = [value |-> 0, visible |-> TRUE]
              /\ status' = "Analyzing..."
              /\ LET w == CHOOSE s \in FreeSlots : \A t \in FreeSlots : s <= t
                 IN workers' = [workers EXCEPT ![w] =
                                   [NoWorker EXCEPT !.pc = "start",
                                                    !.match_count = match_count]]
              /\ UNCHANGED <<modal, slot_raised>>
    /\ UNCHANGED <<requests, received, emitted, upstream, queue, probe>>

\* the progress signal reaches its slot
update_progress ==
    /\ queue # <<>>
    /\ Head(queue).signal.name = "progress"
    /\ queue' = Tail(queue)
    /\ progress_bar' = [progress_bar EXCEPT !.value = Head(queue).signal.value]
    /\ UNCHANGED <<analyze_button, status, match_layout, modal, slot_raised,
                   workers, requests, received, emitted, upstream, probe>>

\* the error signal reaches its slot: QMessageBox.critical opens and blocks
\* show_error until it is closed
show_error ==
    /\ queue # <<>>
    /\ Head(queue).signal.name = "error"
    /\ queue' = Tail(queue)
    /\ modal' = Append(modal, [box |-> "critical", worker |-> Head(queue).worker])
    /\ UNCHANGED <<analyze_button, progress_bar, status, match_layout, slot_raised,
                   workers, requests, received, emitted, upstream, probe>>

\* matches[0]["player"]["puuid"], match["player"]["kills"], ...: a TypeError
\* when a summary's player is None
RaisesOnPlayer(matches) ==
    \E i \in 1..Len(matches) : matches[i].player = None

\* what display_results puts on the screen for a non-empty result: the
\* summary frame and one card per match, or nothing when it raises
Shown(matches) ==
    IF RaisesOnPlayer(matches) THEN Raised
    ELSE LET user_puuid == matches[1].player.puuid
         IN [summary |-> create_summary_frame(matches),
             cards |-> [i \in 1..Len(matches) |-> MatchCardWidget(matches[i], user_puuid)]]

\* the finished signal reaches its slot; the layout is recorded as the
\* summary frame followed by the match of each card (what the widgets show
\* is Shown(matches); the popup the summary frame opens is not modal)
display_results ==
    /\ queue # <<>>
    /\ Head(queue).signal.name = "finished"
    /\ queue' = Tail(queue)
    /\ LET matches == Head(queue).signal.results
           w == Head(queue).worker
       IN IF matches = <<>>
          THEN /\ modal' = Append(modal, [box |-> "information", worker |-> w])
               /\ UNCHANGED <<analyze_button, progress_bar, status, match_layout,
                              slot_raised, workers, requests, received, emitted, upstream>>
          ELSE IF RaisesOnPlayer(matches)
          THEN /\ slot_raised' = TRUE
               /\ Reap(w)
               /\ UNCHANGED <<analyze_button, progress_bar, status, match_layout,
                              modal>>
          ELSE /\ match_layout' = <<"summary">> \o
                                    [i \in 1..Len(matches) |-> matches[i].match_id]
               /\ analyze_button' = TRUE
               /\ progress_bar' = [progress_bar EXCEPT !.visible = FALSE]
               /\ status' = "Analysis complete"
               /\ Reap(w)
               /\ UNCHANGED <<modal, slot_raised>>
    /\ UNCHANGED probe

\* the innermost message box is closed and the handler that opened it runs
\* to its end
close_message_box ==
    /\ modal # <<>>
    /\ modal' = SubSeq(modal, 1, Len(modal) - 1)
    /\ LET top == modal[Len(modal)]
       IN IF top.box = "warning"
          THEN UNCHANGED <<analyze_button, progress_bar, status,
                           workers, requests, received, emitted, upstream>>
          ELSE /\ analyze_button' = TRUE
               /\ progress_bar' = [progress_bar EXCEPT !.visible = FALSE]
               /\ status' = IF top.box = "critical" THEN "Analysis failed" ELSE "Ready"
               /\ Reap(top.worker)
    /\ UNCHANGED <<match_layout, slot_raised, queue, probe>>

Next ==
    \/ start_analysis
    \/ update_progress
    \/ show_error
    \/ display_results
    \/ close_message_box
    \/ \E w \in Workers : run_begin(w)
    \/ \E w \in Workers : run_after_get_puuid(w)
    \/ \E w \in Workers : run_after_get_match_ids(w)
    \/ \E w \in Workers : run_after_get_match_details(w)

Spec == Init /\ [][Next]_vars

\* ------------------------------------------------------------------------
\* One loop iteration in isolation, over a wide set of match payloads
\* ------------------------------------------------------------------------
\* player on the blue side but listed after the red side
PartsBlueLast ==
    << Participant("e1", 200, "BOTTOM", 2, 2, 2, TRUE),
       Participant("e2", 200, "UTILITY", 0, 1, 7, TRUE),
       Participant("a1", 100, "UTILITY", 1, 6, 3, FALSE),
       Participant(ME, 100, "BOTTOM", 5, 5, 0, FALSE) >>

ProbeParticipants ==
    {PartsBlue, PartsRed, PartsBlueLast, PartsNoPlayer, PartsBad, <<>>}

ProbeMaps == {10, 11, 12}
ProbeQueues == EXCLUDED_QUEUES \cup {0, 400, 420, 430, 440, 700, 900, 1400}

ProbeResponses ==
    {RaisedByRequests} \cup
    {Http(status_code, None) : status_code \in {403, 404, 429, 500}} \cup
    {Http(200, Payload(m, q, ps)) :
        m \in ProbeMaps, q \in ProbeQueues, ps \in ProbeParticipants}

\* the summary already collected when the iteration is the second one
EarlierSummary == get_match_details(ME, 1, Http(200, Payload(11, 420, PartsBlue)))

\* results collected so far and the requested count: fewer than the count,
\* or the loop would have stopped
ProbeInputs ==
    {[phase |-> "in", puuid |-> ME, match_id |-> 2, response |-> r,
      results |-> rc[1], match_count |-> rc[2]] :
        r \in ProbeResponses,
        rc \in {c \in {<<>>, <<EarlierSummary>>} \X MatchCounts : Len(c[1]) < c[2]}}

InitDetails == InitProgram /\ probe \in ProbeInputs

\* match_data = self.get_match_details(puuid, match_id), then the rest of
\* the loop body
loop_iteration ==
    /\ probe.phase = "in"
    /\ LET match_data == get_match_details(probe.puuid, probe.match_id, probe.response)
       IN probe' = [phase |-> "out", puuid |-> probe.puuid,
                    match_id |-> probe.match_id, response |-> probe.response,
                    results |-> probe.results, match_count |-> probe.match_count,
                    match_data |-> match_data,
                    after |-> IF match_data = Raised THEN Raised
                              ELSE LoopBody(probe.results, probe.match_count,
                                            match_data)]
    /\ UNCHANGED <<gui, workers, requests, received, emitted, upstream, queue>>

NextDetails == loop_iteration

SpecDetails == InitDetails /\ [][NextDetails]_vars

\* ------------------------------------------------------------------------
\* display_results in isolation, over a wide set of results
\* ------------------------------------------------------------------------
\* the analyzed player, allies with the given (kills, deaths, assists) lines
\* and enemies with theirs
Lineup(allies, enemies) ==
    <<Participant(ME, 100, "TOP", 3, 1, 2, TRUE)>>
    \o [i \in 1..Len(allies) |->
          Participant(<<"a1", "a2">>[i], 100, POSITIONS[i + 1],
                      allies[i][1], allies[i][2], allies[i][3], TRUE)]
    \o [i \in 1..Len(enemies) |->
          Participant(<<"e1", "e2">>[i], 200, POSITIONS[i],
                      enemies[i][1], enemies[i][2], enemies[i][3], FALSE)]

AllyLines ==
    { <<>>, << <<6, 5, 7>> >>, << <<5, 5, 6>> >>, << <<4, 5, 5>> >>,
      << <<3, 5, 4>> >>, << <<3, 2, 0>> >>, << <<1, 5, 5>>, <<4, 1, 0>> >> }

EnemyLines ==
    { <<>>, << <<1, 1, 1>> >>, << <<0, 2, 0>> >>, << <<2, 3, 3>> >>,
      << <<0, 0, 2>>, <<1, 1, 1>> >> }

SummaryParticipants ==
    {Lineup(allies, enemies) : allies \in AllyLines, enemies \in EnemyLines}
    \cup {PartsBlue, PartsRed, PartsBlueLast, PartsNoPlayer}

\* the participants of the second and later matches of a result
LaterParticipants == {PartsBlue, PartsRed, Lineup(<< <<6, 5, 7>> >>, << <<1, 1, 1>> >>)}

\* the payloads behind the results of a run: at most match_count of them
SummaryPayloads ==
    UNION { { <<first>> \o later : first \in SummaryParticipants,
                                   later \in [1..(n - 1) -> LaterParticipants] } :
            n \in MatchCounts }

SummaryInputs ==
    {[phase |-> "matches", payloads |-> ps,
      matches |-> [i \in 1..Len(ps) |->
                     get_match_details(ME, i, Http(200, Payload(11, 420, ps[i])))]] :
        ps \in SummaryPayloads}

InitSummary == InitProgram /\ probe \in SummaryInputs

show_matches ==
    /\ probe.phase = "matches"
    /\ probe' = [phase |-> "shown", payloads |-> probe.payloads,
                 matches |-> probe.matches, shown |-> Shown(probe.matches)]
    /\ UNCHANGED <<gui, workers, requests, received, emitted, upstream, queue>>

NextSummary == show_matches

SpecSummary == InitSummary /\ [][NextSummary]_vars

\* ------------------------------------------------------------------------
\* Properties
\* ------------------------------------------------------------------------
Live(w) == workers[w].pc # "none"
IsSummary(x) == x # None /\ x # Raised
LastOf(s) == s[Len(s)]

\* what fetching a listed id yields in worker w's run
Yields(w, match_id) ==
    get_match_details(workers[w].puuid, match_id, upstream[w][match_id])

DetailRequests(w) ==
    LET IsDetail(r) == r.op = "get_match_details"
    IN SelectSeq(requests[w], IsDetail)

\* the listed ids whose fetch yields a summary, in listing order
ValidIds(w) ==
    LET Valid(match_id) == IsSummary(Yields(w, match_id))
    IN SelectSeq(workers[w].match_ids, Valid)

ProgressValues(w) ==
    LET IsProgress(e) == e.name = "progress"
        ps == SelectSeq(emitted[w], IsProgress)
    IN [i \in 1..Len(ps) |-> ps[i].value]

\* C1: match-detail requests go out in listing order, and a request is only
\* issued while fewer than match_count of the ids before it yielded a summary;
\* when 2 * match_count ids are listed and all are valid, the run ends with
\* exactly match_count summaries after exactly match_count detail requests.
C1_EarlyStop ==
    \A w \in Workers :
      LET me == workers[w]
          det == DetailRequests(w)
      IN /\ \A k \in 1..Len(det) :
              /\ det[k].match_id = me.match_ids[k]
              /\ Cardinality({j \in 1..(k - 1) :
                                IsSummary(Yields(w, me.match_ids[j]))}) < me.match_count
         /\ ( /\ me.pc = "done"
              /\ Len(me.match_ids) = 2 * me.match_count
              /\ \A i \in 1..Len(me.match_ids) : IsSummary(Yields(w, me.match_ids[i])) )
            => /\ Len(me.results) = me.match_count
               /\ Len(det) = me.match_count
               /\ LastOf(emitted[w]) = Finished(me.results)

C1_Witness ==
    \E w \in Workers :
      /\ workers[w].pc = "done"
      /\ workers[w].match_count = 2
      /\ Len(workers[w].match_ids) = 4
      /\ \A i \in 1..4 : IsSummary(Yields(w, i))
      /\ Len(workers[w].results) = 2
      /\ Len(DetailRequests(w)) = 2

\* C2: a finished signal carries exactly the first min(match_count, V) valid
\* matches of the listing, in listing order, where V is the number of listed
\* ids whose fetch yields a summary; never more than match_count.
C2_FirstValidInOrder ==
    \A w \in Workers :
      \A k \in 1..Len(emitted[w]) :
        emitted[w][k].name = "finished" =>
          LET r == emitted[w][k].results
              valid == ValidIds(w)
          IN /\ Len(r) = Min(workers[w].match_count, Len(valid))
             /\ Len(r) <= workers[w].match_count
             /\ \A i \in 1..Len(r) : r[i] = Yields(w, valid[i])

C2_Witness ==
    \E w \in Workers :
      /\ workers[w].pc = "done"
      /\ LastOf(emitted[w]).name = "finished"
      /\ Len(workers[w].results) = 2
      /\ workers[w].results[1].match_id = 1
      /\ workers[w].results[2].match_id = 3
      /\ Len(ValidIds(w)) = 3

\* C3: when every listed id was fetched and none yielded a summary, the run
\* ends with the no-valid-matches error and no finished signal; no finished
\* signal ever carries an empty list.
C3_NoValidMatches ==
    \A w \in Workers :
      /\ ( /\ workers[w].pc = "done"
           /\ workers[w].match_ids # <<>>
           /\ \A i \in 1..Len(workers[w].match_ids) :
                Yields(w, workers[w].match_ids[i]) = None )
         => /\ Len(DetailRequests(w)) = Len(workers[w].match_ids)
            /\ LastOf(emitted[w]) = Error(MSG_NO_VALID)
            /\ \A k \in 1..Len(emitted[w]) : emitted[w][k].name # "finished"
      /\ \A k \in 1..Len(emitted[w]) :
           emitted[w][k].name = "finished" => emitted[w][k].results # <<>>

C3_Witness ==
    \E w \in Workers :
      /\ workers[w].pc = "done"
      /\ Len(workers[w].match_ids) = 3
      /\ \A i \in 1..3 : Yields(w, i) = None
      /\ LastOf(emitted[w]) = Error(MSG_NO_VALID)

\* C4: after a non-success identity response the run has ended with the
\* puuid error, and the identity request is the only request it ever issued.
C4_IdentityFailureStops ==
    \A w \in Workers :
      ( /\ Len(received[w]) >= 1
        /\ received[w][1].kind = "http"
        /\ received[w][1].status_code # 200 )
      => /\ workers[w].pc = "done"
         /\ requests[w] = <<ReqPuuid>>
         /\ emitted[w] = <<Progress(5), Error(MSG_PUUID)>>

C4_Witness ==
    \E w \in Workers : received[w] = <<Http(404, None)>> /\ workers[w].pc = "done"

\* C5: after a listing response that is non-success or an empty list the run
\* has ended with the no-matches error; it issued one identity request, one
\* listing request and no match-detail request.
C5_ListingFailureStops ==
    \A w \in Workers :
      ( /\ Len(received[w]) >= 2
        /\ received[w][2].kind = "http"
        /\ (received[w][2].status_code # 200 \/ received[w][2].json = <<>>) )
      => /\ workers[w].pc = "done"
         /\ requests[w] = <<ReqPuuid, ReqMatchIds(2 * workers[w].match_count)>>
         /\ emitted[w] = <<Progress(5), Progress(10), Error(MSG_NO_MATCHES)>>

C5_Witness ==
    \E w \in Workers :
      /\ Len(received[w]) = 2
      /\ received[w][2] = Http(200, <<>>)
      /\ workers[w].pc = "done"

\* C6: a failed match-detail fetch (non-success status, or requests.get
\* raising) does not abort the run: if the run has ended right after such a
\* fetch, every listed id was requested and the run ended with finished or
\* with the no-valid-matches error, not with the exception error.
C6_FetchFailureNeverAborts ==
    \A w \in Workers :
      LET n == Len(received[w])
      IN ( /\ n >= 3
           /\ workers[w].pc = "done"
           /\ (received[w][n].kind = "exception" \/ received[w][n].status_code # 200) )
         => /\ Len(DetailRequests(w)) = Len(workers[w].match_ids)
            /\ LastOf(emitted[w]) \in {Finished(workers[w].results), Error(MSG_NO_VALID)}

\* C7: a fetched payload (status 200) whose map id is not 11 or whose queue
\* id is one of 450, 1090, 1100, 1110, 1130, 1150, 1200 yields None whatever
\* its participants are, and the iteration neither appends to the results nor
\* stops the loop.
C7_FilterIsTotal ==
    ( /\ probe.phase = "out"
      /\ probe.response.kind = "http"
      /\ probe.response.status_code = 200
      /\ \/ probe.response.json.mapId # 11
         \/ probe.response.json.queueId \in {450, 1090, 1100, 1110, 1130, 1150, 1200} )
    => /\ probe.match_data = None
       /\ probe.after = [results |-> probe.results, stop |-> FALSE]

C7_Witness ==
    /\ probe.phase = "out"
    /\ probe.response = Http(200, Payload(11, 1200, PartsBad))
    /\ probe.results = <<EarlierSummary>>
    /\ probe.match_count = 2
    /\ probe.match_data = None
    /\ probe.after.results = <<EarlierSummary>>

\* C8: the progress values a run emits are integers in 0..100 and never
\* decrease.
C8_ProgressMonotone ==
    \A w \in Workers :
      LET v == ProgressValues(w)
      IN /\ \A i \in 1..Len(v) : v[i] \in 0..100
         /\ \A i \in 1..(Len(v) - 1) : v[i] <= v[i + 1]

C8_Witness ==
    \E w \in Workers :
      /\ Len(workers[w].match_ids) = 4
      /\ ProgressValues(w) = <<5, 10, 30, 47, 65, 82, 100>>

\* C9: at most one worker exists at any time and the Analyze button is
\* disabled while it exists (from its start until its last signal has been
\* handled to the end); a worker is only started by a step taken with the
\* button enabled and no worker present; a start_analysis that opens the
\* input warning starts no worker.
AtMostOneInFlight ==
    /\ Cardinality({w \in Workers : Live(w)}) <= 1
    /\ (\E w \in Workers : Live(w)) => ~analyze_button

StartsGuarded ==
    /\ (\E w \in Workers : ~Live(w) /\ Live(w)')
         => /\ analyze_button
            /\ ~analyze_button'
            /\ \A w \in Workers : ~Live(w)
    /\ (Len(modal') > Len(modal) /\ LastOf(modal').box = "warning")
         => workers' = workers

C9_OneRunAtATime == []AtMostOneInFlight /\ [][StartsGuarded]_vars

C9_Witness ==
    \E w \in Workers :
      /\ workers[w].pc = "done"
      /\ modal = <<[box |-> "critical", worker |-> w]>>
      /\ queue = <<>>
      /\ ~analyze_button

\* C10: in every summary, each participant record of the payload that
\* carries the analyzed puuid is the summary's player, is in allied_team and
\* not in enemy_team; allied_team is exactly the participants with that
\* record's team id (100 or 200), in payload order, and enemy_team exactly
\* those with the other team id, wherever the record stands in the list.
C10_PlayerOnAlliedTeam ==
    (probe.phase = "out" /\ IsSummary(probe.match_data))
    => LET m == probe.match_data
           players == probe.response.json.participants
       IN \A k \in 1..Len(players) :
            players[k].puuid = probe.puuid =>
              LET SameSide(p) == p.teamId = players[k].teamId
                  OtherSide(p) == p.teamId = 300 - players[k].teamId
              IN /\ m.player = players[k]
                 /\ players[k].teamId \in {100, 200}
                 /\ m.allied_team = SelectSeq(players, SameSide)
                 /\ m.enemy_team = SelectSeq(players, OtherSide)
                 /\ \E i \in 1..Len(m.allied_team) : m.allied_team[i] = players[k]
                 /\ \A i \in 1..Len(m.enemy_team) : m.enemy_team[i] # players[k]

C10_Witness ==
    /\ probe.phase = "out"
    /\ probe.response.kind = "http"
    /\ probe.response.status_code = 200
    /\ probe.response.json.participants = PartsRed
    /\ IsSummary(probe.match_data)
    /\ probe.match_data.player = PartsRed[1]
    /\ probe.match_data.allied_team = <<PartsRed[1], PartsRed[3]>>
    /\ probe.match_data.enemy_team = <<PartsRed[2], PartsRed[4]>>

\* C15: a run's calls are made one at a time and in the order identity,
\* listing, details: its first request is the identity request and no later
\* one is; the listing request is the second and is only issued after the
\* identity call returned a puuid; every later request is a match-detail
\* request, issued only after the listing returned a non-empty list; and the
\* finished or error signal is only emitted when no call is outstanding.
C15_CallsInOrder ==
    \A w \in Workers :
      LET req == requests[w]
          rec == received[w]
      IN /\ Len(rec) <= Len(req)
         /\ Len(req) <= Len(rec) + 1
         /\ workers[w].pc \in {"get_puuid", "get_match_ids", "get_match_details", "done"}
              => Len(req) >= 1
         /\ \A k \in 1..Len(req) :
              /\ req[k].op = "get_puuid" <=> k = 1
              /\ req[k].op = "get_match_ids" <=> k = 2
              /\ req[k].op = "get_match_details" <=> k >= 3
         /\ Len(req) >= 2
              => /\ rec[1].kind = "http"
                 /\ rec[1].status_code = 200
                 /\ rec[1].json.puuid = workers[w].puuid
         /\ Len(req) >= 3
              => /\ rec[2].kind = "http"
                 /\ rec[2].status_code = 200
                 /\ rec[2].json # <<>>
         /\ (\E k \in 1..Len(emitted[w]) : emitted[w][k].name \in {"finished", "error"})
              => Len(rec) = Len(req)

C15_Witness ==
    \E w \in Workers :
      /\ workers[w].pc = "done"
      /\ requests[w] = <<ReqPuuid, ReqMatchIds(4), ReqMatchDetails(1),
                         ReqMatchDetails(2), ReqMatchDetails(3)>>
      /\ Len(received[w]) = 5
      /\ LastOf(emitted[w]).name = "finished"

\* C16: in every summary each of the two role mappings has exactly the five
\* roles as keys; a role maps to the first participant of its own team (the
\* team being the payload's participants with that team id, in payload
\* order) whose teamPosition is the role, or to None if there is none; no
\* participant of the other team is in a mapping; a participant that shares
\* its role with an earlier one of its team is not in the mapping but is
\* still in the team.
C16_RoleMapping ==
    (probe.phase = "out" /\ IsSummary(probe.match_data)) =>
      LET m == probe.match_data
          players == probe.response.json.participants
          roles == {"TOP", "JUNGLE", "MIDDLE", "BOTTOM", "UTILITY"}
          InPayloadOrder(team) ==
              team # <<>> =>
                LET Same(p) == p.teamId = team[1].teamId
                IN team = SelectSeq(players, Same)
          Mapped(by_position, team, other) ==
              /\ DOMAIN by_position = roles
              /\ InPayloadOrder(team)
              /\ \A r \in roles :
                   LET holders == {i \in 1..Len(team) : TeamPositionOf(team[i]) = r}
                   IN IF holders = {} THEN by_position[r] = None
                      ELSE LET first == CHOOSE i \in holders : \A j \in holders : i <= j
                           IN /\ by_position[r] = team[first]
                              /\ \A i \in 1..Len(other) : other[i] # by_position[r]
                              /\ \A i \in holders \ {first} :
                                   \A q \in roles : by_position[q] # team[i]
      IN /\ Mapped(m.allied_by_position, m.allied_team, m.enemy_team)
         /\ Mapped(m.enemy_by_position, m.enemy_team, m.allied_team)

C16_Witness ==
    /\ probe.phase = "out"
    /\ IsSummary(probe.match_data)
    /\ probe.response.json.participants = PartsBlue
    /\ probe.match_data.enemy_team = <<PartsBlue[3], PartsBlue[4]>>
    /\ probe.match_data.enemy_by_position["TOP"] = PartsBlue[3]
    /\ \A r \in DOMAIN probe.match_data.enemy_by_position :
         probe.match_data.enemy_by_position[r] # PartsBlue[4]
    /\ probe.match_data.enemy_by_position["JUNGLE"] = None

\* the calls of worker w's run that ended in an exception: requests.get
\* raised, or the parsing of the fetched payload did
RaisingCalls(w) ==
    {k \in 1..Len(received[w]) :
        \/ received[w][k].kind = "exception"
        \/ k >= 3 /\ Yields(w, workers[w].match_ids[k - 2]) = Raised}

SignalsNamed(w, name) == {k \in 1..Len(emitted[w]) : emitted[w][k].name = name}

\* C17: when a call of a run (identity, listing, match detail, or the
\* parsing of a match payload) ends in an exception, that call is the run's
\* last, the run ends normally with exactly one error signal whose message
\* is "An error occurred: " followed by the exception's text, and the run
\* emits no finished signal.
C17_ExceptionsReported ==
    \A w \in Workers :
      RaisingCalls(w) # {} =>
        LET n == Len(received[w])
            text == IF received[w][n].kind = "exception"
                    THEN received[w][n].message ELSE "'teamId'"
        IN /\ RaisingCalls(w) = {n}
           /\ Len(requests[w]) = n
           /\ workers[w].pc = "done"
           /\ LastOf(emitted[w]) = [name |-> "error",
                                    message |-> "An error occurred: " \o text]
           /\ Cardinality(SignalsNamed(w, "error")) = 1
           /\ SignalsNamed(w, "finished") = {}

C17_Witness ==
    \E w \in Workers :
      /\ Len(received[w]) = 4
      /\ received[w][3].status_code = 200
      /\ received[w][4] = [kind |-> "http", status_code |-> 200]
      /\ Len(workers[w].results) = 1
      /\ LastOf(emitted[w]) = [name |-> "error", message |-> "An error occurred: 'teamId'"]

\* C18: a run emits at most one terminal signal (finished or error), it has
\* emitted exactly one when it has ended and none before, the terminal
\* signal is the last signal it emits and no request is issued after it; a
\* finished signal carries between 1 and match_count summaries.
OneTerminal ==
    \A w \in Workers :
      LET terminal == SignalsNamed(w, "finished") \cup SignalsNamed(w, "error")
      IN /\ Cardinality(terminal) <= 1
         /\ workers[w].pc = "done" <=> Cardinality(terminal) = 1
         /\ terminal # {} => terminal = {Len(emitted[w])}
         /\ \A k \in SignalsNamed(w, "finished") :
              /\ Len(emitted[w][k].results) >= 1
              /\ Len(emitted[w][k].results) <= workers[w].match_count

NothingAfterTerminal ==
    \A w \in Workers :
      (SignalsNamed(w, "finished") \cup SignalsNamed(w, "error") # {})
        => \/ emitted'[w] = emitted[w] /\ requests'[w] = requests[w]
           \/ emitted'[w] = <<>> /\ requests'[w] = <<>>

C18_OneTerminalSignal == []OneTerminal /\ [][NothingAfterTerminal]_vars

C18_Witness ==
    \E w \in Workers :
      /\ workers[w].pc = "done"
      /\ workers[w].match_count = 2
      /\ Len(emitted[w]) = 7
      /\ emitted[w][7].name = "finished"
      /\ Len(emitted[w][7].results) = 2
      /\ Len(requests[w]) = 5

\* C19: once a run's last signal has been handled to the end (no worker is
\* left, no signal is queued, no message box is open) the Analyze button is
\* enabled again.
C19_ButtonReenabled ==
    ((\A w \in Workers : ~Live(w)) /\ queue = <<>> /\ modal = <<>>) => analyze_button

\* C20: the progress value emitted for the i-th of n listed ids is
\* 30 + floor(70 * i / n) and there is one for each detail request issued
\* (none before the loop beyond 5, 10 and 30); the last progress value is
\* 100 exactly if the last listed id was requested; a run that stopped
\* early, before the last listed id, ended with finished and a last
\* progress value below 100.
C20_LoopProgress ==
    \A w \in Workers :
      LET n == Len(workers[w].match_ids)
          det == DetailRequests(w)
          v == ProgressValues(w)
      IN /\ Len(det) = 0 => v \in {<<>>, <<5>>, <<5, 10>>}
         /\ Len(det) >= 1
              => /\ Len(v) = 3 + Len(det)
                 /\ \A i \in 1..Len(det) : v[3 + i] = 30 + (70 * i) \div n
         /\ (v # <<>> /\ LastOf(v) = 100) <=> (n >= 1 /\ Len(det) = n)
         /\ ( /\ workers[w].pc = "done"
              /\ Len(det) >= 1
              /\ Len(det) < n
              /\ Len(workers[w].results) >= workers[w].match_count )
            => /\ LastOf(emitted[w]).name = "finished"
               /\ LastOf(v) < 100

C20_Witness ==
    \E w \in Workers :
      /\ workers[w].pc = "done"
      /\ workers[w].match_count = 1
      /\ Len(workers[w].match_ids) = 2
      /\ ProgressValues(w) = <<5, 10, 30, 65>>
      /\ LastOf(emitted[w]).name = "finished"

\* ------------------------------------------------------------------------
\* Properties of the summary frame and the match cards
\* ------------------------------------------------------------------------
\* display_results ran on a result whose summaries all have a player
ShownOk == probe.phase = "shown" /\ ~RaisesOnPlayer(probe.matches)

\* (kills + assists) / max(1, deaths) as a float
KdaFormula(kills, deaths, assists) ==
    IF deaths = 0 THEN FloatOfInt(kills + assists)
    ELSE IntTrueDiv(kills + assists, deaths)

\* the KDAs of the participants of one payload on the analyzed player's side
\* (allied, the player left out) or on the other side, in payload order
SideKdas(participants, allied) ==
    LET mine == CHOOSE i \in 1..Len(participants) : participants[i].puuid = ME
        Keep(p) == IF allied
                   THEN p.teamId = participants[mine].teamId /\ p.puuid # ME
                   ELSE p.teamId # participants[mine].teamId
        kept == SelectSeq(participants, Keep)
    IN [i \in 1..Len(kept) |-> KdaFormula(kept[i].kills, kept[i].deaths, kept[i].assists)]

RECURSIVE AllSideKdas(_, _)
AllSideKdas(payloads, allied) ==
    IF payloads = <<>> THEN <<>>
    ELSE AllSideKdas(SubSeq(payloads, 1, Len(payloads) - 1), allied)
         \o SideKdas(payloads[Len(payloads)], allied)

MeanOf(kdas) ==
    IF kdas = <<>> THEN ZeroFloat
    ELSE FloatDiv(SumFloats(kdas), FloatOfInt(Len(kdas)))

\* C11: the team-quality ratio is avg_team_kda / avg_enemy_kda when
\* avg_enemy_kda is not zero and 0 when it is; an empty ally or enemy KDA
\* collection gives the average 0; the summary frame is built (nothing
\* raises) for every result whose summaries have a player.
C11_RatioOrZero ==
    ShownOk =>
      /\ probe.shown # Raised
      /\ LET s == probe.shown.summary
         IN /\ s.avg_enemy_kda # ZeroFloat
                 => s.team_quality = FloatDiv(s.avg_team_kda, s.avg_enemy_kda)
            /\ s.avg_enemy_kda = ZeroFloat => s.team_quality = ZeroFloat
            /\ s.team_kdas = <<>> => s.avg_team_kda = ZeroFloat
            /\ s.enemy_kdas = <<>> => s.avg_enemy_kda = ZeroFloat

C11_Witness ==
    /\ ShownOk
    /\ probe.shown.summary.enemy_kdas = <<>>
    /\ probe.shown.summary.avg_enemy_kda = ZeroFloat
    /\ probe.shown.summary.avg_team_kda # ZeroFloat
    /\ probe.shown.summary.team_quality = ZeroFloat

QualityRank(quality_type) ==
    CASE quality_type = "bad" -> 0
      [] quality_type = "below_average" -> 1
      [] quality_type = "average" -> 2
      [] quality_type = "good" -> 3
      [] quality_type = "amazing" -> 4

\* ratios around and on the four thresholds
RatioSamples ==
    {IntTrueDiv(n, 100) : n \in {0, 69, 70, 71, 89, 90, 91, 109, 110, 111,
                                 129, 130, 131, 500}}

\* C12: the label of the ratio is amazing from 1.3, else good from 1.1, else
\* average from 0.9, else below_average from 0.7, else bad; it is one of
\* these five, a ratio on a threshold gets the higher label, and no smaller
\* ratio gets a better label than a larger one.
C12_InclusiveThresholds ==
    ShownOk =>
      LET ratio == probe.shown.summary.team_quality
          label == probe.shown.summary.quality_type
          From(n) == FloatGeq(ratio, IntTrueDiv(n, 10))
      IN /\ label \in {"amazing", "good", "average", "below_average", "bad"}
         /\ label = "amazing" <=> From(13)
         /\ label = "good" <=> From(11) /\ ~From(13)
         /\ label = "average" <=> From(9) /\ ~From(11)
         /\ label = "below_average" <=> From(7) /\ ~From(9)
         /\ label = "bad" <=> ~From(7)
         /\ \A other \in RatioSamples :
              /\ FloatGeq(other, ratio)
                   => QualityRank(QualityType(other)) >= QualityRank(label)
              /\ FloatGeq(ratio, other)
                   => QualityRank(label) >= QualityRank(QualityType(other))

C12_Witness ==
    /\ ShownOk
    /\ probe.shown.summary.avg_team_kda = IntTrueDiv(26, 10)
    /\ probe.shown.summary.avg_enemy_kda = FloatOfInt(2)
    /\ probe.shown.summary.team_quality = IntTrueDiv(13, 10)
    /\ probe.shown.summary.quality_type = "amazing"

\* C13: avg_team_kda is the mean of the KDAs of every participant on the
\* analyzed player's side of every match of the result except the player,
\* avg_enemy_kda the mean over every participant of the other side; each
\* participant other than the player contributes once per match, whether or
\* not the role mapping kept it.
C13_WhoIsAveraged ==
    ShownOk =>
      LET s == probe.shown.summary
          allied == AllSideKdas(probe.payloads, TRUE)
          enemy == AllSideKdas(probe.payloads, FALSE)
      IN /\ s.team_kdas = allied
         /\ s.enemy_kdas = enemy
         /\ s.avg_team_kda = MeanOf(allied)
         /\ s.avg_enemy_kda = MeanOf(enemy)
         /\ Len(s.team_kdas) + Len(s.enemy_kdas)
              = SumInts([i \in 1..Len(probe.payloads) |-> Len(probe.payloads[i]) - 1])

C13_Witness ==
    /\ ShownOk
    /\ probe.payloads = <<PartsBlue, PartsRed>>
    /\ Len(probe.shown.summary.team_kdas) = 2
    /\ Len(probe.shown.summary.enemy_kdas) = 4
    /\ Cardinality({position \in DOMAIN probe.matches[1].enemy_by_position :
                      probe.matches[1].enemy_by_position[position] # None}) = 1

\* C14: every KDA shown is (kills + assists) / max(1, deaths) of the numbers
\* it is shown with: the labels of the match cards, the entries of team_kdas
\* and enemy_kdas, and the player's KDA from the kills, deaths and assists
\* summed over the matches; with deaths = 0 it is kills + assists; nothing
\* raises.
C14_KdaFormula ==
    ShownOk =>
      /\ probe.shown # Raised
      /\ LET s == probe.shown.summary
             Right(label) ==
                 /\ label.kda_ratio = KdaFormula(label.kills, label.deaths, label.assists)
                 /\ label.kda = Format1f(label.kda_ratio)
                 /\ label.deaths = 0 => label.kda = 10 * (label.kills + label.assists)
         IN /\ s.player_kda = KdaFormula(s.player_kills, s.player_deaths, s.player_assists)
            /\ s.player_kills = SumInts([i \in 1..Len(probe.matches) |->
                                           probe.matches[i].player.kills])
            /\ s.player_deaths = SumInts([i \in 1..Len(probe.matches) |->
                                            probe.matches[i].player.deaths])
            /\ s.player_assists = SumInts([i \in 1..Len(probe.matches) |->
                                             probe.matches[i].player.assists])
            /\ s.team_kdas \o s.enemy_kdas
                 = AllSideKdas(probe.payloads, TRUE) \o AllSideKdas(probe.payloads, FALSE)
            /\ \A i \in 1..Len(probe.shown.cards) :
                 /\ probe.shown.cards[i] # Raised
                 /\ \A position \in DOMAIN probe.shown.cards[i].positions :
                      LET frame == probe.shown.cards[i].positions[position]
                          ally == probe.matches[i].allied_by_position[position]
                          enemy == probe.matches[i].enemy_by_position[position]
                      IN /\ ally # None
                              => /\ Right(frame.ally)
                                 /\ <<frame.ally.kills, frame.ally.deaths, frame.ally.assists>>
                                      = <<ally.kills, ally.deaths, ally.assists>>
                         /\ enemy # None
                              => /\ Right(frame.enemy)
                                 /\ <<frame.enemy.kills, frame.enemy.deaths, frame.enemy.assists>>
                                      = <<enemy.kills, enemy.deaths, enemy.assists>>

C14_Witness ==
    /\ ShownOk
    /\ probe.payloads = <<PartsBlue>>
    /\ probe.shown.cards[1].positions["TOP"].ally.kills = 4
    /\ probe.shown.cards[1].positions["TOP"].ally.deaths = 0
    /\ probe.shown.cards[1].positions["TOP"].ally.assists = 6
    /\ probe.shown.cards[1].positions["TOP"].ally.kda_ratio = FloatOfInt(10)
    /\ probe.shown.cards[1].positions["TOP"].ally.kda = 100

====
